---- MODULE Spec2Model ----
(***************************************************************************)
(* GitHubComplianceEngine (src/compliance.py): the collectors, the scoring *)
(* rules, run_comprehensive_scan and generate_progress_report, as a state  *)
(* machine over the engine's stored event list.                            *)
(***************************************************************************)
EXTENDS Integers, Sequences, FiniteSets, TLC

(***************************************************************************)
(* Text.  A Python str that the code inspects character by character       *)
(* (len, lower, substring search, f-string concatenation) is a sequence of *)
(* one-character strings.                                                  *)
(***************************************************************************)
UpperCase == <<"A","B","C","D","E","F","G","H","I","J","K","L","M",
               "N","O","P","Q","R","S","T","U","V","W","X","Y","Z">>

LowerCase == <<"a","b","c","d","e","f","g","h","i","j","k","l","m",
               "n","o","p","q","r","s","t","u","v","w","x","y","z">>

\* str.lower() on one character
LowerChar(c) ==
    IF \E i \in 1..Len(UpperCase) : UpperCase[i] = c
    THEN LowerCase[CHOOSE i \in 1..Len(UpperCase) : UpperCase[i] = c]
    ELSE c

\* str.lower()
Lower(s) == [i \in 1..Len(s) |-> LowerChar(s[i])]

\* needle in hay (substring test)
Contains(hay, needle) ==
    \E i \in 1..(Len(hay) - Len(needle) + 1) :
        SubSeq(hay, i, i + Len(needle) - 1) = needle

(***************************************************************************)
(* binary64 arithmetic.  Every float the engine computes is a score        *)
(* constant (0.1 .. 1.0), a difference or sum of such, or a sum divided by *)
(* a count.  With B = 2^56 and the unit t = 2^-56 / 10, such a double is   *)
(* exactly (a*B + e)/d * t for small integers a, e, d: a is the value in   *)
(* tenths, e the rounding residue, d the divisor (1 for a score).  A float *)
(* is the tuple <<a, e, d>>.  Rounding to nearest-even only needs the      *)
(* exact value modulo twice the grid, which is computed from B modulo it.  *)
(***************************************************************************)
RECURSIVE Pow2Mod(_, _)
Pow2Mod(k, m) == IF k = 0 THEN 1 % m ELSE (2 * Pow2Mod(k - 1, m)) % m

RECURSIVE Pow2(_)
Pow2(k) == IF k = 0 THEN 1 ELSE 2 * Pow2(k - 1)

\* exact value (a*B + e)/d >= (10*B) * num/den, i.e. value >= num/den
GeRatio(a, e, d, num, den) ==
    \/ den * a > 10 * num * d
    \/ den * a = 10 * num * d /\ e >= 0

\* ulp, in units of t, of the binade [2^k, 2^(k+1)) holding a value >= 1
RECURSIVE UlpUp(_, _, _, _)
UlpUp(a, e, d, k) ==
    IF GeRatio(a, e, d, Pow2(k + 1), 1) THEN UlpUp(a, e, d, k + 1)
    ELSE 160 * Pow2(k)

\* ulp, in units of t, of the binade holding the exact value (a*B + e)/d;
\* below 2^-4 every value that occurs is a multiple of 2^-56 and is exact
Ulp(a, e, d) ==
    IF GeRatio(a, e, d, 1, 1) THEN UlpUp(a, e, d, 0)
    ELSE IF GeRatio(a, e, d, 1, 2) THEN 80
    ELSE IF GeRatio(a, e, d, 1, 4) THEN 40
    ELSE IF GeRatio(a, e, d, 1, 8) THEN 20
    ELSE 10

\* the residue of the grid point nearest to the exact value, ties to the even
\* one: r is the exact value modulo twice the grid m, low its part above the
\* grid point below
NearestResidue(e, m, r, low) ==
    IF 2 * low < m THEN e - low
    ELSE IF 2 * low > m THEN e - low + m
    ELSE IF r < m THEN e - low
    ELSE e - low + m

\* the exact value (a*B + e)/d rounded on the grid m/d, given it modulo 2m
RoundOnGrid(a, e, d, m, r) == <<a, NearestResidue(e, m, r, r % m), d>>

\* the exact value (a*B + e)/d rounded on the grid m/d
RoundModulo(a, e, d, m) == RoundOnGrid(a, e, d, m, (a * Pow2Mod(56, 2 * m) + e) % (2 * m))

\* round-to-nearest, ties-to-even, of the exact value (a*B + e)/d
RoundNearestEven(a, e, d) == RoundModulo(a, e, d, d * Ulp(a, e, d))

\* float literals of the source
F0_0 == <<0, 0, 1>>
F0_1 == <<1, 4, 1>>
F0_2 == <<2, 8, 1>>
F0_3 == <<3, -8, 1>>
F0_5 == <<5, 0, 1>>
F0_7 == <<7, -32, 1>>
F0_8 == <<8, 32, 1>>
F0_9 == <<9, 16, 1>>
F1_0 == <<10, 0, 1>>

\* x - y and x + y on scores (d = 1)
FSub(x, y) == RoundNearestEven(x[1] - y[1], x[2] - y[2], 1)
FAdd(x, y) == RoundNearestEven(x[1] + y[1], x[2] + y[2], 1)

\* x / n for a float x with d = 1 and a positive int n
FDivInt(x, n) == RoundNearestEven(x[1], x[2], n)

\* x < y, x <= y on any two floats (cross-multiplied, lexicographic in a, e)
FLt(x, y) ==
    \/ x[1] * y[3] < y[1] * x[3]
    \/ x[1] * y[3] = y[1] * x[3] /\ x[2] * y[3] < y[2] * x[3]

FLe(x, y) == ~FLt(y, x)

\* max(x, y) as Python evaluates it: the first argument unless the second is larger
FMax(x, y) == IF FLt(x, y) THEN y ELSE x

(***************************************************************************)
(* Python dict access.                                                     *)
(***************************************************************************)
\* k in d: d[k] raises KeyError exactly when this is false
Has(d, k) == k \in DOMAIN d

\* d.get(k, default)
Get(d, k, default) == IF k \in DOMAIN d THEN d[k] ELSE default

\* sum(f.get(k, 0) for f in files)
RECURSIVE SumField(_, _)
SumField(files, k) ==
    IF files = <<>> THEN 0
    ELSE Get(Head(files), k, 0) + SumField(Tail(files), k)

(***************************************************************************)
(* Timestamps.  A timestamp string is one of the two layouts the engine    *)
(* stores: the provider's 'YYYY-MM-DDTHH:MM:SSZ' (sfx "Z", UTC) and        *)
(* datetime.now().isoformat(), the naive local 'YYYY-MM-DDTHH:MM:SS.ffffff'*)
(* (sfx "."), held as its fields: date, time of day, the character after   *)
(* the seconds, and the microseconds.                                      *)
(***************************************************************************)
ZStamp(date, tod) == [date |-> date, tod |-> tod, sfx |-> "Z", us |-> 0]

NaiveStamp(date, tod, us) == [date |-> date, tod |-> tod, sfx |-> ".", us |-> us]

\* code point order of the character that follows the seconds: '.' < 'Z'
SfxRank(sfx) == IF sfx = "." THEN 46 ELSE 90

\* str < str on two timestamp strings: the layouts are fixed-width and
\* zero-padded, so the order is that of (date, time, suffix character, digits)
StrLt(s, t) ==
    \/ s.date < t.date
    \/ s.date = t.date /\ s.tod < t.tod
    \/ s.date = t.date /\ s.tod = t.tod /\ SfxRank(s.sfx) < SfxRank(t.sfx)
    \/ s.date = t.date /\ s.tod = t.tod /\ s.sfx = t.sfx /\ s.us < t.us

\* datetime.fromisoformat(ts.replace('Z', '+00:00')).date(): the date written
\* in the string (UTC for the provider's layout, local for the naive one)
ParseDate(ts) == ts.date

(***************************************************************************)
(* Event types and the raw provider records the collectors are run on.     *)
(***************************************************************************)
T_commit == <<"c","o","m","m","i","t">>
T_pull_request == <<"p","u","l","l","_","r","e","q","u","e","s","t">>
T_branch_status == <<"b","r","a","n","c","h","_","s","t","a","t","u","s">>
T_tag_status == <<"t","a","g","_","s","t","a","t","u","s">>
T_file_ == <<"f","i","l","e","_">>
PushEvent == <<"P","u","s","h","E","v","e","n","t">>
CreateEvent == <<"C","r","e","a","t","e","E","v","e","n","t">>
DeleteEvent == <<"D","e","l","e","t","e","E","v","e","n","t">>
WatchEvent == <<"W","a","t","c","h","E","v","e","n","t">>

\* the conventional-commit prefixes of _calculate_commit_compliance_score
ConventionalPrefixes ==
    { <<"f","e","a","t",":">>,
      <<"f","i","x",":">>,
      <<"d","o","c","s",":">>,
      <<"s","t","y","l","e",":">>,
      <<"r","e","f","a","c","t","o","r",":">>,
      <<"t","e","s","t",":">>,
      <<"c","h","o","r","e",":">> }

\* a 'files' list of n entries
Files(n) == [i \in 1..n |-> [additions |-> 2, deletions |-> 1]]

\* a payload 'commits' list of n entries
PayloadCommits(n) == [i \in 1..n |-> [sha |-> "p"]]

CommitRecords ==
    { [sha |-> "c1",
       commit |-> [committer |-> [date |-> ZStamp(2, 0)], author |-> [name |-> "ann"],
                   message |-> <<"f","e","a","t",":"," ","a","d","d"," ","a","p","i">>]],
      [sha |-> "c2",
       commit |-> [committer |-> [date |-> ZStamp(1, 0)], author |-> [name |-> "bob"],
                   message |-> <<"w","i","p">>]],
      [sha |-> "c3",
       commit |-> [committer |-> [date |-> ZStamp(1, 1)], author |-> [name |-> "bob"],
                   message |-> <<"F","i","x",":"," ","x">>],
       files |-> Files(21)],
      \* no 'sha'
      [commit |-> [committer |-> [date |-> ZStamp(1, 0)], author |-> [name |-> "ann"],
                   message |-> <<"f","i","x",":"," ","t","y","p","o"," ","i","n"," ","r","e","a","d","m","e">>]] }

PullRecords ==
    { [number |-> 1, title |-> "patch", state |-> "open", created_at |-> ZStamp(1, 1),
       user |-> [login |-> "bob"], review_comments |-> 0,
       additions |-> 900, deletions |-> 700],
      [number |-> 2, title |-> "widget", state |-> "closed", created_at |-> ZStamp(2, 0),
       user |-> [login |-> "ann"], review_comments |-> 3, additions |-> 40, deletions |-> 2,
       body |-> <<"a","d","d","s"," ","t","h","e"," ","w","i","d","g","e","t"," ","v","i","e","w">>],
      \* no 'user'
      [number |-> 3, title |-> "anon", state |-> "open", created_at |-> ZStamp(1, 0),
       review_comments |-> 1] }

RepoEventRecords ==
    { [id |-> "e1", type |-> PushEvent, created_at |-> ZStamp(1, 0),
       actor |-> [login |-> "ann"],
       payload |-> [ref |-> "refs/heads/main", commits |-> PayloadCommits(11)]],
      [id |-> "e2", type |-> CreateEvent, created_at |-> ZStamp(2, 0),
       actor |-> [login |-> "bob"], payload |-> [ref |-> "dev"]],
      [id |-> "e3", type |-> DeleteEvent, created_at |-> ZStamp(2, 1),
       actor |-> [login |-> "bob"], payload |-> [ref |-> "old"]],
      [id |-> "e4", type |-> WatchEvent, created_at |-> ZStamp(1, 0),
       actor |-> [login |-> "cat"]],
      \* no 'actor'
      [id |-> "e5", type |-> PushEvent, created_at |-> ZStamp(1, 0)] }

BranchRecords ==
    { [name |-> "main", protected |-> TRUE, commit |-> [sha |-> "c1"]],
      [name |-> "dev", commit |-> [sha |-> "c2"]],
      \* no 'commit'
      [name |-> "tmp", protected |-> FALSE] }

TagRecords ==
    { [name |-> "v1", commit |-> [sha |-> "c1"]],
      \* no 'name'
      [commit |-> [sha |-> "c2"]] }

(***************************************************************************)
(* Scoring rules.                                                          *)
(***************************************************************************)
\* if <condition>: score -= penalty
Penalise(score, condition, penalty) == IF condition THEN FSub(score, penalty) ELSE score

\* _calculate_commit_compliance_score
CalculateCommitComplianceScore(commit) ==
    FMax(F0_0,
         Penalise(Penalise(Penalise(F1_0,
                                    Len(commit.commit.message) < 10, F0_3),
                           ~(\E prefix \in ConventionalPrefixes :
                                Contains(Lower(commit.commit.message), prefix)), F0_2),
                  Len(Get(commit, "files", <<>>)) > 20, F0_2))

\* variant of _calculate_pr_compliance_score: each penalty added, not subtracted
CalculatePrComplianceScore_Added(pr) ==
    LET s1 == IF Get(pr, "body", <<>>) = <<>> \/ Len(pr.body) < 20
              THEN FAdd(F1_0, F0_3) ELSE F1_0
        s2 == IF Get(pr, "review_comments", 0) = 0 THEN FAdd(s1, F0_2) ELSE s1
        s3 == IF Get(pr, "additions", 0) + Get(pr, "deletions", 0) > 1000
              THEN FAdd(s2, F0_1) ELSE s2
    IN  FMax(F0_0, s3)

\* _calculate_pr_compliance_score
CalculatePrComplianceScore(pr) ==
    FMax(F0_0,
         Penalise(Penalise(Penalise(F1_0,
                                    Get(pr, "body", <<>>) = <<>> \/ Len(pr.body) < 20, F0_3),
                           Get(pr, "review_comments", 0) = 0, F0_2),
                  Get(pr, "additions", 0) + Get(pr, "deletions", 0) > 1000, F0_1))

\* _calculate_file_operation_compliance_score
CalculateFileOperationComplianceScore(event) ==
    LET commits_count == Len(Get(Get(event, "payload", [x \in {} |-> 0]), "commits", <<>>))
        score == IF event.type = PushEvent
                 THEN (IF commits_count > 10 THEN FSub(F1_0, F0_2) ELSE F1_0)
                 ELSE IF event.type = DeleteEvent THEN F0_8
                 ELSE F1_0
    IN  FMax(F0_0, score)

\* compliance_score=1.0 if branch.get('protected') else 0.7
BranchScore(branch) == IF Get(branch, "protected", FALSE) THEN F1_0 ELSE F0_7

\* compliance_score=0.9
TagScore(tag) == F0_9

(***************************************************************************)
(* Collectors.  A provider response is a failure (requests raised, or      *)
(* raise_for_status did) or the decoded list of records.  A collector      *)
(* returns its events, or raises: only RequestException is caught, so the  *)
(* KeyError of a subscript on a missing key leaves the collector.          *)
(***************************************************************************)
ProviderFailure == [ok |-> FALSE]

ProviderList(body) == [ok |-> TRUE, body |-> body]

Returned(evs) == [raised |-> FALSE, events |-> evs]

Raised(exc) == [raised |-> TRUE, exc |-> exc]

ComplianceEvent(timestamp, event_type, repository, user, details, compliance_score) ==
    [timestamp |-> timestamp, event_type |-> event_type, repository |-> repository,
     user |-> user, details |-> details, compliance_score |-> compliance_score]

\* every key the commit loop subscripts is present
CommitSubscriptsOk(commit) ==
    /\ Has(commit, "commit")
    /\ Has(commit.commit, "committer") /\ Has(commit.commit.committer, "date")
    /\ Has(commit.commit, "author") /\ Has(commit.commit.author, "name")
    /\ Has(commit, "sha")
    /\ Has(commit.commit, "message")

CommitEvent(repo_full_name, commit) ==
    ComplianceEvent(
        commit.commit.committer.date, T_commit, repo_full_name, commit.commit.author.name,
        [sha |-> commit.sha, message |-> commit.commit.message,
         files_changed |-> Len(Get(commit, "files", <<>>)),
         additions |-> SumField(Get(commit, "files", <<>>), "additions"),
         deletions |-> SumField(Get(commit, "files", <<>>), "deletions")],
        CalculateCommitComplianceScore(commit))

\* monitor_commits
MonitorCommits(repo_full_name, resp) ==
    IF ~resp.ok THEN Returned(<<>>)
    ELSE IF \E i \in 1..Len(resp.body) : ~CommitSubscriptsOk(resp.body[i])
    THEN Raised("KeyError")
    ELSE Returned([i \in 1..Len(resp.body) |-> CommitEvent(repo_full_name, resp.body[i])])

\* every key the pull-request loop subscripts is present
PullSubscriptsOk(pr) ==
    /\ Has(pr, "created_at")
    /\ Has(pr, "user") /\ Has(pr.user, "login")
    /\ Has(pr, "number") /\ Has(pr, "title") /\ Has(pr, "state")

PullEvent(repo_full_name, pr) ==
    ComplianceEvent(
        pr.created_at, T_pull_request, repo_full_name, pr.user.login,
        [number |-> pr.number, title |-> pr.title, state |-> pr.state,
         merged |-> Get(pr, "merged", FALSE), mergeable |-> Get(pr, "mergeable", "None"),
         review_comments |-> Get(pr, "review_comments", 0)],
        CalculatePrComplianceScore(pr))

\* monitor_pull_requests
MonitorPullRequests(repo_full_name, resp) ==
    IF ~resp.ok THEN Returned(<<>>)
    ELSE IF \E i \in 1..Len(resp.body) : ~PullSubscriptsOk(resp.body[i])
    THEN Raised("KeyError")
    ELSE Returned([i \in 1..Len(resp.body) |-> PullEvent(repo_full_name, resp.body[i])])

\* event['type'] in ['PushEvent', 'CreateEvent', 'DeleteEvent']
IsFileOperation(event) == event.type \in {PushEvent, CreateEvent, DeleteEvent}

\* every key the repository-event loop subscripts is present
RepoEventSubscriptsOk(event) ==
    /\ Has(event, "type")
    /\ IsFileOperation(event) =>
          /\ Has(event, "created_at")
          /\ Has(event, "actor") /\ Has(event.actor, "login")
          /\ Has(event, "id")

\* variant of the event_type f-string: the type name is not lower-cased
FileEventType_NoLower(type) == T_file_ \o type

\* f"file_{event['type'].lower()}"
FileEventType(type) == T_file_ \o Lower(type)

FileOperationEvent(repo_full_name, event) ==
    LET payload == Get(event, "payload", [x \in {} |-> 0])
    IN  ComplianceEvent(
            event.created_at, FileEventType(event.type), repo_full_name, event.actor.login,
            [event_id |-> event.id, payload |-> payload, ref |-> Get(payload, "ref", ""),
             commits_count |-> Len(Get(payload, "commits", <<>>))],
            CalculateFileOperationComplianceScore(event))

\* the records of the response the loop's if lets through, in order
RECURSIVE FileOperationsOf(_)
FileOperationsOf(body) ==
    IF body = <<>> THEN <<>>
    ELSE (IF IsFileOperation(Head(body)) THEN <<Head(body)>> ELSE <<>>)
         \o FileOperationsOf(Tail(body))

\* monitor_file_operations
MonitorFileOperations(repo_full_name, resp) ==
    IF ~resp.ok THEN Returned(<<>>)
    ELSE IF \E i \in 1..Len(resp.body) : ~RepoEventSubscriptsOk(resp.body[i])
    THEN Raised("KeyError")
    ELSE LET ops == FileOperationsOf(resp.body)
         IN  Returned([i \in 1..Len(ops) |-> FileOperationEvent(repo_full_name, ops[i])])

\* every key the branch loop, and the tag loop, subscripts is present
BranchSubscriptsOk(branch) ==
    Has(branch, "name") /\ Has(branch, "commit") /\ Has(branch.commit, "sha")

TagSubscriptsOk(tag) ==
    Has(tag, "name") /\ Has(tag, "commit") /\ Has(tag.commit, "sha")

\* the events of the branch loop; the k-th datetime.now() of the call reads
\* the local clock now, k microseconds on
BranchEvents(repo_full_name, branches, now) ==
    [i \in 1..Len(branches) |->
        ComplianceEvent(
            NaiveStamp(now.date, now.tod, i), T_branch_status, repo_full_name, "system",
            [name |-> branches[i].name, protected |-> Get(branches[i], "protected", FALSE),
             commit_sha |-> branches[i].commit.sha],
            BranchScore(branches[i]))]

TagEvents(repo_full_name, tags, now, after) ==
    [i \in 1..Len(tags) |->
        ComplianceEvent(
            NaiveStamp(now.date, now.tod, after + i), T_tag_status, repo_full_name, "system",
            [name |-> tags[i].name, commit_sha |-> tags[i].commit.sha],
            TagScore(tags[i]))]

\* monitor_branches_and_tags: two try blocks, one per request
MonitorBranchesAndTags(repo_full_name, branchResp, tagResp, now) ==
    IF branchResp.ok /\ \E i \in 1..Len(branchResp.body) : ~BranchSubscriptsOk(branchResp.body[i])
    THEN Raised("KeyError")
    ELSE LET fromBranches == IF branchResp.ok
                             THEN BranchEvents(repo_full_name, branchResp.body, now)
                             ELSE <<>>
         IN  IF tagResp.ok /\ \E i \in 1..Len(tagResp.body) : ~TagSubscriptsOk(tagResp.body[i])
             THEN Raised("KeyError")
             ELSE Returned(fromBranches \o
                           (IF tagResp.ok
                            THEN TagEvents(repo_full_name, tagResp.body, now, Len(fromBranches))
                            ELSE <<>>))

(***************************************************************************)
(* Aggregation and report assembly.  A Python dict built by insertion is   *)
(* its list of (key, value) items in insertion order.                      *)
(***************************************************************************)
EmptyDict == [k \in {} |-> 0]

\* the distinct members of a list, in order of first occurrence
RECURSIVE KeysInOrder(_)
KeysInOrder(s) ==
    IF s = <<>> THEN <<>>
    ELSE LET before == KeysInOrder(SubSeq(s, 1, Len(s) - 1))
             last   == s[Len(s)]
         IN  IF \E i \in 1..Len(before) : before[i] = last THEN before
             ELSE Append(before, last)

\* defaultdict(int) tally of a list of keys
Tally(keys) ==
    LET ks == KeysInOrder(keys)
    IN  [i \in 1..Len(ks) |->
            <<ks[i], Cardinality({j \in 1..Len(keys) : keys[j] = ks[i]})>>]

\* sorted(items, key=count, reverse=True): stable, larger counts first
RECURSIVE InsertByCountDesc(_, _)
InsertByCountDesc(sorted, item) ==
    IF sorted = <<>> THEN <<item>>
    ELSE IF Head(sorted)[2] < item[2] THEN <<item>> \o sorted
    ELSE <<Head(sorted)>> \o InsertByCountDesc(Tail(sorted), item)

RECURSIVE SortByCountDesc(_, _)
SortByCountDesc(sorted, rest) ==
    IF rest = <<>> THEN sorted
    ELSE SortByCountDesc(InsertByCountDesc(sorted, Head(rest)), Tail(rest))

\* sorted(self.events, key=lambda x: x.timestamp, reverse=True): stable, by str order
RECURSIVE InsertByTimestampDesc(_, _)
InsertByTimestampDesc(sorted, event) ==
    IF sorted = <<>> THEN <<event>>
    ELSE IF StrLt(Head(sorted).timestamp, event.timestamp) THEN <<event>> \o sorted
    ELSE <<Head(sorted)>> \o InsertByTimestampDesc(Tail(sorted), event)

RECURSIVE SortByTimestampDesc(_, _)
SortByTimestampDesc(sorted, rest) ==
    IF rest = <<>> THEN sorted
    ELSE SortByTimestampDesc(InsertByTimestampDesc(sorted, Head(rest)), Tail(rest))

\* sum() of floats before Python 3.12: left to right, each addition rounded
RECURSIVE SumLeftToRight(_, _)
SumLeftToRight(acc, scores) ==
    IF scores = <<>> THEN acc
    ELSE SumLeftToRight(FAdd(acc, Head(scores)), Tail(scores))

RECURSIVE ExactTenths(_)
ExactTenths(scores) == IF scores = <<>> THEN 0 ELSE Head(scores)[1] + ExactTenths(Tail(scores))

RECURSIVE ExactResidue(_)
ExactResidue(scores) == IF scores = <<>> THEN 0 ELSE Head(scores)[2] + ExactResidue(Tail(scores))

\* sum() of floats from Python 3.12: Neumaier compensation, which on these
\* values returns the exact sum rounded once
SumCompensated(scores) == RoundNearestEven(ExactTenths(scores), ExactResidue(scores), 1)

\* sum(scores) of a non-empty list, on either build
FloatSum(scores, compensated) ==
    IF compensated THEN SumCompensated(scores) ELSE SumLeftToRight(F0_0, scores)

\* sum(scores) / len(scores)
Average(scores, compensated) == FDivInt(FloatSum(scores, compensated), Len(scores))

ScoresOf(evs) == [i \in 1..Len(evs) |-> evs[i].compliance_score]

\* _generate_summary
GenerateSummary(evs, compensated) ==
    [events_by_type |-> Tally([i \in 1..Len(evs) |-> evs[i].event_type]),
     events_by_repository |-> Tally([i \in 1..Len(evs) |-> evs[i].repository]),
     top_contributors |->
        LET ranked == SortByCountDesc(<<>>, Tally([i \in 1..Len(evs) |-> evs[i].user]))
        IN  SubSeq(ranked, 1, IF Len(ranked) < 10 THEN Len(ranked) ELSE 10),
     average_compliance_score |->
        IF evs # <<>> THEN Average(ScoresOf(evs), compensated) ELSE F0_0]

\* the events of a list whose index passes a test, in order
RECURSIVE SelectIdx(_, _, _)
SelectIdx(evs, keep, i) ==
    IF i > Len(evs) THEN <<>>
    ELSE (IF i \in keep THEN <<evs[i]>> ELSE <<>>) \o SelectIdx(evs, keep, i + 1)

\* [e for e in self.events if e.compliance_score < 0.5]
HighRiskEvents(evs) ==
    SelectIdx(evs, {i \in 1..Len(evs) : FLt(evs[i].compliance_score, F0_5)}, 1)

\* [e for e in self.events if 0.5 <= e.compliance_score < 0.8]
MediumRiskEvents(evs) ==
    SelectIdx(evs, {i \in 1..Len(evs) : /\ FLe(F0_5, evs[i].compliance_score)
                                        /\ FLt(evs[i].compliance_score, F0_8)}, 1)

\* variant of the low-risk filter: > 0.8 for >= 0.8
LowRiskEvents_Strict(evs) ==
    SelectIdx(evs, {i \in 1..Len(evs) : FLt(F0_8, evs[i].compliance_score)}, 1)

\* [e for e in self.events if e.compliance_score >= 0.8]
LowRiskEvents(evs) ==
    SelectIdx(evs, {i \in 1..Len(evs) : FLe(F0_8, evs[i].compliance_score)}, 1)

\* (count / total_events) * 100, kept as the expression's operands
Percentage(count, total) == [count |-> count, of |-> total, times |-> 100]

\* daily_scores: date -> the scores of that date, dates in insertion order
DailyScores(evs) ==
    LET dates == KeysInOrder([i \in 1..Len(evs) |-> ParseDate(evs[i].timestamp)])
    IN  [d \in 1..Len(dates) |->
            <<dates[d],
              ScoresOf(SelectIdx(evs, {i \in 1..Len(evs) :
                                         ParseDate(evs[i].timestamp) = dates[d]}, 1))>>]

\* _analyze_compliance_trends
AnalyzeComplianceTrends(evs, compensated) ==
    LET daily_scores == DailyScores(evs)
        daily_averages == [d \in 1..Len(daily_scores) |->
                              <<daily_scores[d][1], Average(daily_scores[d][2], compensated)>>]
    IN  [daily_compliance_scores |-> daily_averages,
         trend |-> IF /\ Len(daily_averages) > 1
                      /\ FLt(daily_averages[1][2], daily_averages[Len(daily_averages)][2])
                   THEN "improving" ELSE "stable"]

RecCommitQuality == "Improve commit message quality and follow conventional commit format"
RecCommitSize == "Consider breaking down large commits into smaller, focused changes"
RecPrDescription == "Ensure all pull requests have detailed descriptions"
RecPrReview == "Implement mandatory code reviews for all pull requests"
RecGood == "Overall compliance is good. Continue current practices."

\* variant of _generate_recommendations: elif pr_issues for if pr_issues
GenerateRecommendations_Elif(high_risk_events) ==
    LET commit_issues == \E i \in 1..Len(high_risk_events) :
                            high_risk_events[i].event_type = T_commit
        pr_issues == \E i \in 1..Len(high_risk_events) :
                            high_risk_events[i].event_type = T_pull_request
    IN  IF commit_issues THEN <<RecCommitQuality, RecCommitSize>>
        ELSE IF pr_issues THEN <<RecPrDescription, RecPrReview>>
        ELSE <<RecGood>>

\* _generate_recommendations
GenerateRecommendations(high_risk_events) ==
    LET commit_issues == \E i \in 1..Len(high_risk_events) :
                            high_risk_events[i].event_type = T_commit
        pr_issues == \E i \in 1..Len(high_risk_events) :
                            high_risk_events[i].event_type = T_pull_request
        r1 == IF commit_issues THEN <<RecCommitQuality, RecCommitSize>> ELSE <<>>
        r2 == IF pr_issues THEN r1 \o <<RecPrDescription, RecPrReview>> ELSE r1
    IN  IF r2 = <<>> THEN <<RecGood>> ELSE r2

\* _generate_compliance_metrics
GenerateComplianceMetrics(evs, compensated) ==
    LET total_events == Len(evs)
        high == HighRiskEvents(evs)
        medium == MediumRiskEvents(evs)
        low == LowRiskEvents(evs)
    IN  IF total_events = 0 THEN EmptyDict
        ELSE [risk_distribution |->
                 [high_risk |-> Len(high), medium_risk |-> Len(medium), low_risk |-> Len(low)],
              risk_percentages |->
                 [high_risk |-> Percentage(Len(high), total_events),
                  medium_risk |-> Percentage(Len(medium), total_events),
                  low_risk |-> Percentage(Len(low), total_events)],
              compliance_trends |-> AnalyzeComplianceTrends(evs, compensated),
              recommendations |-> GenerateRecommendations(high)]

\* the 'detailed_events' entry of one event
DetailedEvent(event) ==
    [timestamp |-> event.timestamp, type |-> event.event_type,
     repository |-> event.repository, user |-> event.user,
     compliance_score |-> event.compliance_score, details |-> event.details]

\* generate_progress_report, up to the file write: the report value
BuildReport(evs, now, compensated) ==
    IF evs = <<>> THEN EmptyDict
    ELSE LET sorted == SortByTimestampDesc(<<>>, evs)
         IN  [generated_at |-> NaiveStamp(now.date, now.tod, 1),
              scan_period |-> "Last 30 days",
              total_events |-> Len(evs),
              repositories_scanned |->
                  Cardinality({evs[i].repository : i \in 1..Len(evs)}),
              summary |-> GenerateSummary(evs, compensated),
              compliance_metrics |-> GenerateComplianceMetrics(evs, compensated),
              detailed_events |-> [i \in 1..Len(sorted) |-> DetailedEvent(sorted[i])]]

(***************************************************************************)
(* The engine.  The configuration is that of main(): two repository names  *)
(* and no organization.                                                    *)
(***************************************************************************)
\* self.repositories
Repositories == <<"r1", "r2">>

\* self.organization
Organization == ""

\* response.json()['full_name'] of a configured repository
FullName(repo_name) == IF repo_name = "r1" THEN "octo/r1" ELSE "octo/r2"

\* records the provider hands out over the engine's life
MaxRecords == 2

\* the local wall-clock readings datetime.now() can return during a run
Clock == { [date |-> 2, tod |-> 1] }

VARIABLES
    events,        \* self.events
    pc,            \* "idle", or the next collector call of the scan in progress
    repositories,  \* run_comprehensive_scan: repositories (their full names)
    idx,           \* run_comprehensive_scan: position of the for loop
    all_events,    \* run_comprehensive_scan: all_events
    ret,           \* how the latest call on the engine ended, and its value
    fetched,       \* records handed out so far
    last_call,     \* history: the latest collector request of the scan, with its response
    failed_call,   \* history: the latest collector request of the scan that failed
    expected,      \* history: what the requests of the scan should have contributed
    completed      \* history: the value returned by the latest scan that returned

vars == <<events, pc, repositories, idx, all_events, ret, fetched,
          last_call, failed_call, expected, completed>>

\* all lists of length at most n over S
SeqsUpTo(S, n) == UNION { [1..k -> S] : k \in 0..n }

\* what one request can answer: a failure, or a list of records
Responses(records) ==
    {ProviderFailure} \cup { ProviderList(body) : body \in SeqsUpTo(records, MaxRecords - fetched) }

NoCall == [kind |-> "none"]

Call(repo, kind, resp) == [repo |-> repo, kind |-> kind, resp |-> resp]

Fetched(resp) == IF resp.ok THEN Len(resp.body) ELSE 0

\* the record of a response is well-formed for its collector
WellFormed(kind, rec) ==
    CASE kind = "commits" -> CommitSubscriptsOk(rec)
      [] kind = "pulls" -> PullSubscriptsOk(rec)
      [] kind = "events" -> RepoEventSubscriptsOk(rec)
      [] kind = "branches" -> BranchSubscriptsOk(rec)
      [] kind = "tags" -> TagSubscriptsOk(rec)

\* the well-formed records of a list, in order
RECURSIVE WellFormedOf(_, _)
WellFormedOf(kind, body) ==
    IF body = <<>> THEN <<>>
    ELSE (IF WellFormed(kind, Head(body)) THEN <<Head(body)>> ELSE <<>>)
         \o WellFormedOf(kind, Tail(body))

\* history: the events one request should contribute: none if it failed, else
\* one per well-formed record it answered (per file operation, for repository
\* events); a call's k-th clock reading is k microseconds after now
Contribution(call, now, after) ==
    LET recs == IF call.resp.ok THEN WellFormedOf(call.kind, call.resp.body) ELSE <<>>
    IN  CASE call.kind = "commits" ->
                [k \in 1..Len(recs) |-> CommitEvent(call.repo, recs[k])]
          [] call.kind = "pulls" ->
                [k \in 1..Len(recs) |-> PullEvent(call.repo, recs[k])]
          [] call.kind = "events" ->
                LET ops == FileOperationsOf(recs)
                IN  [k \in 1..Len(ops) |-> FileOperationEvent(call.repo, ops[k])]
          [] call.kind = "branches" -> BranchEvents(call.repo, recs, now)
          [] call.kind = "tags" -> TagEvents(call.repo, recs, now, after)

\* history: one more request was made and answered
Logged(call, now, after) ==
    /\ last_call' = call
    /\ failed_call' = IF call.resp.ok THEN failed_call ELSE call
    /\ expected' = expected \o Contribution(call, now, after)
    /\ fetched' = fetched + Fetched(call.resp)

\* __init__
Init ==
    /\ events = <<>>
    /\ pc = "idle"
    /\ repositories = <<>>
    /\ idx = 0
    /\ all_events = <<>>
    /\ ret = [op |-> "init", status |-> "returned"]
    /\ fetched = 0
    /\ last_call = NoCall
    /\ failed_call = NoCall
    /\ expected = <<>>
    /\ completed = <<>>

\* the configured names whose index is in keep, as full names, in order
RECURSIVE Resolved(_, _)
Resolved(keep, i) ==
    IF i > Len(Repositories) THEN <<>>
    ELSE (IF i \in keep THEN <<FullName(Repositories[i])>> ELSE <<>>) \o Resolved(keep, i + 1)

\* run_comprehensive_scan, through get_repositories(): each repository fetch
\* that fails is skipped; the /user lookup made when no organization is set
\* is outside any try
GetRepositories ==
    /\ pc = "idle"
    /\ all_events' = <<>>
    /\ last_call' = NoCall
    /\ failed_call' = NoCall
    /\ expected' = <<>>
    /\ UNCHANGED <<events, fetched, completed>>
    /\ \/ /\ Organization = ""
          /\ ret' = [op |-> "scan", status |-> "raised", exc |-> "ConnectionError"]
          /\ UNCHANGED <<pc, repositories, idx>>
       \/ \E keep \in SUBSET (1..Len(Repositories)) :
             /\ repositories' = Resolved(keep, 1)
             /\ idx' = 1
             /\ pc' = IF keep = {} THEN "return" ELSE "commits"
             /\ ret' = [op |-> "scan", status |-> "running"]

\* an exception leaves run_comprehensive_scan: its locals are gone,
\* self.events was not assigned
ScanRaises(exc) ==
    /\ pc' = "idle"
    /\ repositories' = <<>>
    /\ idx' = 0
    /\ all_events' = <<>>
    /\ ret' = [op |-> "scan", status |-> "raised", exc |-> exc]

\* all_events.extend(out.events), then on to the next statement
ScanExtends(out, next) ==
    /\ all_events' = all_events \o out.events
    /\ pc' = next
    /\ UNCHANGED <<repositories, ret>>

\* all_events.extend(self.monitor_commits(repo_full_name, days_back))
ScanCommits ==
    /\ pc = "commits"
    /\ \E resp \in Responses(CommitRecords) :
          LET out == MonitorCommits(repositories[idx], resp)
          IN  /\ Logged(Call(repositories[idx], "commits", resp), NoCall, 0)
              /\ IF out.raised THEN ScanRaises(out.exc)
                 ELSE ScanExtends(out, "pulls") /\ UNCHANGED idx
    /\ UNCHANGED <<events, completed>>

\* all_events.extend(self.monitor_pull_requests(repo_full_name))
ScanPullRequests ==
    /\ pc = "pulls"
    /\ \E resp \in Responses(PullRecords) :
          LET out == MonitorPullRequests(repositories[idx], resp)
          IN  /\ Logged(Call(repositories[idx], "pulls", resp), NoCall, 0)
              /\ IF out.raised THEN ScanRaises(out.exc)
                 ELSE ScanExtends(out, "events") /\ UNCHANGED idx
    /\ UNCHANGED <<events, completed>>

\* all_events.extend(self.monitor_file_operations(repo_full_name))
ScanFileOperations ==
    /\ pc = "events"
    /\ \E resp \in Responses(RepoEventRecords) :
          LET out == MonitorFileOperations(repositories[idx], resp)
          IN  /\ Logged(Call(repositories[idx], "events", resp), NoCall, 0)
              /\ IF out.raised THEN ScanRaises(out.exc)
                 ELSE ScanExtends(out, "branches") /\ UNCHANGED idx
    /\ UNCHANGED <<events, completed>>

\* history of monitor_branches_and_tags: the branch request, then the tag
\* request unless the branch loop raised
LoggedBranchesAndTags(repo, branchResp, tagResp, now) ==
    LET branchCall == Call(repo, "branches", branchResp)
        tagCall == Call(repo, "tags", tagResp)
        fromBranches == Contribution(branchCall, now, 0)
    IN  IF branchResp.ok /\ \E i \in 1..Len(branchResp.body) :
                               ~BranchSubscriptsOk(branchResp.body[i])
        THEN Logged(branchCall, now, 0)
        ELSE /\ last_call' = tagCall
             /\ failed_call' = IF ~tagResp.ok THEN tagCall
                               ELSE IF ~branchResp.ok THEN branchCall
                               ELSE failed_call
             /\ expected' = expected \o fromBranches
                            \o Contribution(tagCall, now, Len(fromBranches))
             /\ fetched' = fetched + Fetched(branchResp) + Fetched(tagResp)

\* all_events.extend(self.monitor_branches_and_tags(repo_full_name)); time.sleep(1);
\* the loop moves to the next repository, or ends
ScanBranchesAndTags ==
    /\ pc = "branches"
    /\ \E now \in Clock, branchResp \in Responses(BranchRecords) :
       \E tagResp \in { r \in Responses(TagRecords) :
                          Fetched(branchResp) + Fetched(r) <= MaxRecords - fetched } :
          LET out == MonitorBranchesAndTags(repositories[idx], branchResp, tagResp, now)
          IN  /\ LoggedBranchesAndTags(repositories[idx], branchResp, tagResp, now)
              /\ IF out.raised THEN ScanRaises(out.exc)
                 ELSE /\ ScanExtends(out, IF idx < Len(repositories) THEN "commits"
                                          ELSE "return")
                      /\ idx' = idx + 1
    /\ UNCHANGED <<events, completed>>

\* variant of the end of run_comprehensive_scan: self.events.extend(all_events)
\* for self.events = all_events
ScanReturn_Extends ==
    /\ pc = "return"
    /\ events' = events \o all_events
    /\ completed' = all_events
    /\ ret' = [op |-> "scan", status |-> "returned", value |-> all_events]
    /\ pc' = "idle"
    /\ repositories' = <<>>
    /\ idx' = 0
    /\ all_events' = <<>>
    /\ UNCHANGED <<fetched, last_call, failed_call, expected>>

\* self.events = all_events; return all_events
ScanReturn ==
    /\ pc = "return"
    /\ events' = all_events
    /\ completed' = all_events
    /\ ret' = [op |-> "scan", status |-> "returned", value |-> all_events]
    /\ pc' = "idle"
    /\ repositories' = <<>>
    /\ idx' = 0
    /\ all_events' = <<>>
    /\ UNCHANGED <<fetched, last_call, failed_call, expected>>

\* generate_progress_report: {} with nothing written when self.events is
\* empty; else the report is built, written (open or json.dump may raise)
\* and returned
GenerateProgressReport ==
    /\ pc = "idle"
    /\ \E now \in Clock, compensated \in BOOLEAN, written \in BOOLEAN :
          LET report == BuildReport(events, now, compensated)
          IN  ret' = IF events = <<>> \/ written
                     THEN [op |-> "report", status |-> "returned", value |-> report]
                     ELSE [op |-> "report", status |-> "raised", exc |-> "OSError"]
    /\ last_call' = NoCall
    /\ failed_call' = NoCall
    /\ expected' = <<>>
    /\ UNCHANGED <<events, pc, repositories, idx, all_events, fetched, completed>>

Next ==
    \/ GetRepositories
    \/ ScanCommits
    \/ ScanPullRequests
    \/ ScanFileOperations
    \/ ScanBranchesAndTags
    \/ ScanReturn
    \/ GenerateProgressReport

Spec == Init /\ [][Next]_vars

(***************************************************************************)
(* Properties.                                                             *)
(***************************************************************************)
ScanReturned == ret.op = "scan" /\ ret.status = "returned"

ScanRaised == ret.op = "scan" /\ ret.status = "raised"

ScanRunning == ret.op = "scan" /\ ret.status = "running"

\* a non-empty report came back from generate_progress_report
ReportReturned == ret.op = "report" /\ ret.status = "returned" /\ events # <<>>

HasMalformed(call) ==
    /\ call.kind # "none"
    /\ call.resp.ok
    /\ \E i \in 1..Len(call.resp.body) : ~WellFormed(call.kind, call.resp.body[i])

\* C1 (as claimed): a provider failure of one collector request costs that
\* request's events only and never the scan.  A scan in which a request failed
\* does not raise; while it runs, and when it returns, the events gathered are
\* exactly the contributions of all its requests, a failed one contributing
\* nothing; and the value returned is the stored list.
C1_ProviderErrorNeverAbortsScan ==
    /\ failed_call # NoCall => ~ScanRaised
    /\ ScanRunning => all_events = expected
    /\ ScanReturned => events = expected /\ ret.value = events

\* C2 (as claimed): a list holding a record without a required field does not
\* make the collector raise; the scan goes on, having gathered one event for
\* each well-formed record of that list.
C2_MalformedRecordIsSkipped ==
    /\ HasMalformed(last_call) => ~ScanRaised
    /\ ScanRunning => all_events = expected

\* C3: every event gathered or stored has 0.0 <= compliance_score <= 1.0.
C3_ScoreInUnitInterval ==
    \A evs \in {events, all_events} : \A i \in 1..Len(evs) :
        FLe(F0_0, evs[i].compliance_score) /\ FLe(evs[i].compliance_score, F1_0)

\* C3 witness: a stored list holding a penalised and an unpenalised event
C3_Witness ==
    /\ \E i \in 1..Len(events) : FLt(events[i].compliance_score, F1_0)
    /\ \E i \in 1..Len(events) : events[i].compliance_score = F1_0

\* C4: in a report of a non-empty list every stored event is counted in
\* exactly one tier, high for a score below 0.5, medium for a score from 0.5 up
\* to but not 0.8, low for a score of 0.8 or more, so that the three risk
\* counts add up to total_events, the number of stored events.
C4_TiersPartitionEvents ==
    ReportReturned =>
        LET dist == ret.value.compliance_metrics.risk_distribution
            score(i) == events[i].compliance_score
            all == 1..Len(events)
        IN  /\ dist.high_risk = Cardinality({i \in all : FLt(score(i), F0_5)})
            /\ dist.medium_risk = Cardinality({i \in all : FLe(F0_5, score(i)) /\ FLt(score(i), F0_8)})
            /\ dist.low_risk = Cardinality({i \in all : FLe(F0_8, score(i))})
            /\ dist.high_risk + dist.medium_risk + dist.low_risk = ret.value.total_events
            /\ ret.value.total_events = Len(events)

\* C4 witness: a report whose events fall in two different tiers
C4_Witness ==
    /\ ReportReturned
    /\ Cardinality({t \in {"high_risk", "medium_risk", "low_risk"} :
                      ret.value.compliance_metrics.risk_distribution[t] > 0}) = 2

\* the event types as the data model lists them
ListedEventTypes ==
    { T_commit, T_pull_request, <<"f","i","l","e","_","p","u","s","h">>,
      <<"f","i","l","e","_","c","r","e","a","t","e">>, <<"f","i","l","e","_","d","e","l","e","t","e">>,
      T_branch_status, T_tag_status }

\* the event types as emitted: 'file_' and the provider's type name in lower case
EmittedEventTypes ==
    { T_commit, T_pull_request, <<"f","i","l","e","_","p","u","s","h","e","v","e","n","t">>,
      <<"f","i","l","e","_","c","r","e","a","t","e","e","v","e","n","t">>,
      <<"f","i","l","e","_","d","e","l","e","t","e","e","v","e","n","t">>,
      T_branch_status, T_tag_status }

\* the name a provider event type is emitted under
EmittedName(type) ==
    CASE type = PushEvent -> <<"f","i","l","e","_","p","u","s","h","e","v","e","n","t">>
      [] type = CreateEvent -> <<"f","i","l","e","_","c","r","e","a","t","e","e","v","e","n","t">>
      [] type = DeleteEvent -> <<"f","i","l","e","_","d","e","l","e","t","e","e","v","e","n","t">>

\* the name the data model lists for a provider event type
ListedName(type) ==
    CASE type = PushEvent -> <<"f","i","l","e","_","p","u","s","h">>
      [] type = CreateEvent -> <<"f","i","l","e","_","c","r","e","a","t","e">>
      [] type = DeleteEvent -> <<"f","i","l","e","_","d","e","l","e","t","e">>

\* the provider type of the repository event a file-operation event came from
SourceType(event) ==
    (CHOOSE r \in RepoEventRecords : r.id = event.details.event_id).type

\* C5 (as claimed): every event's event_type is one of commit, pull_request,
\* file_push, file_create, file_delete, branch_status, tag_status, a PushEvent,
\* CreateEvent or DeleteEvent record giving file_push, file_create, file_delete.
C5_EventTypeAsListed ==
    \A evs \in {events, all_events} : \A i \in 1..Len(evs) :
        /\ evs[i].event_type \in ListedEventTypes
        /\ Has(evs[i].details, "event_id") => evs[i].event_type = ListedName(SourceType(evs[i]))

\* C5 (amended): every event's event_type is one of commit, pull_request,
\* file_pushevent, file_createevent, file_deleteevent, branch_status,
\* tag_status, a PushEvent, CreateEvent or DeleteEvent record giving
\* file_pushevent, file_createevent, file_deleteevent.
C5_EventTypeAsEmitted ==
    \A evs \in {events, all_events} : \A i \in 1..Len(evs) :
        /\ evs[i].event_type \in EmittedEventTypes
        /\ Has(evs[i].details, "event_id") => evs[i].event_type = EmittedName(SourceType(evs[i]))

\* C5 witness: a stored list holding two different kinds of file operation
C5_Witness ==
    \E i, j \in 1..Len(events) :
        /\ Has(events[i].details, "event_id") /\ Has(events[j].details, "event_id")
        /\ events[i].event_type # events[j].event_type

\* the exact mean of a list of scores, unrounded
ExactMean(scores) == <<ExactTenths(scores), ExactResidue(scores), Len(scores)>>

\* the scores of the stored events dated d
ScoresDated(d) ==
    ScoresOf(SelectIdx(events, {i \in 1..Len(events) : ParseDate(events[i].timestamp) = d}, 1))

\* C6 (as claimed): whatever the order of the stored events, the trend is
\* 'improving' exactly when they fall on two or more dates and the mean score
\* of the latest date exceeds that of the earliest date; else it is 'stable'.
C6_TrendComparesLatestWithEarliest ==
    ReportReturned =>
        LET dates == {ParseDate(events[i].timestamp) : i \in 1..Len(events)}
            earliest == CHOOSE d \in dates : \A o \in dates : d <= o
            latest == CHOOSE d \in dates : \A o \in dates : o <= d
            trend == ret.value.compliance_metrics.compliance_trends.trend
        IN  /\ trend \in {"improving", "stable"}
            /\ trend = "improving" <=>
                  /\ Cardinality(dates) >= 2
                  /\ FLt(ExactMean(ScoresDated(earliest)), ExactMean(ScoresDated(latest)))

\* C7 (as claimed): with no stored events generate_progress_report returns,
\* and every aggregate is there with an empty or zero value.
C7_EmptyReportHasZeroAggregates ==
    (ret.op = "report" /\ events = <<>>) =>
        /\ ret.status = "returned"
        /\ {"total_events", "repositories_scanned", "summary", "compliance_metrics"}
              \subseteq DOMAIN ret.value
        /\ ret.value.total_events = 0
        /\ ret.value.repositories_scanned = 0

\* C8: the recommendations of a report are the two commit messages if a
\* high-risk commit is stored, then the two pull-request messages if a
\* high-risk pull request is stored, and the generic message alone if neither
\* is; so they number 1, 2 or 4.
C8_RecommendationsByPattern ==
    ReportReturned =>
        LET recs == ret.value.compliance_metrics.recommendations
            HighRisk(type) == \E i \in 1..Len(events) :
                                 /\ events[i].event_type = type
                                 /\ FLt(events[i].compliance_score, F0_5)
            forCommits == IF HighRisk(T_commit) THEN <<RecCommitQuality, RecCommitSize>>
                          ELSE <<>>
            forPulls == IF HighRisk(T_pull_request) THEN <<RecPrDescription, RecPrReview>>
                        ELSE <<>>
        IN  /\ recs = IF HighRisk(T_commit) \/ HighRisk(T_pull_request)
                      THEN forCommits \o forPulls ELSE <<RecGood>>
            /\ Len(recs) \in {1, 2, 4}

\* C8 witness: a report on a high-risk commit and a high-risk pull request
C8_Witness ==
    /\ ReportReturned
    /\ Len(ret.value.compliance_metrics.recommendations) = 4

\* the instant a timestamp denotes is earlier than another's, on a machine
\* whose local time is UTC
InstantLt(s, t) ==
    \/ s.date < t.date
    \/ s.date = t.date /\ s.tod < t.tod
    \/ s.date = t.date /\ s.tod = t.tod /\ s.us < t.us

\* C9 (as claimed): detailed_events holds each stored event once, latest
\* instant first.
C9_DetailedEventsLatestInstantFirst ==
    ReportReturned =>
        LET detailed == ret.value.detailed_events
            stored == [i \in 1..Len(events) |-> DetailedEvent(events[i])]
            Count(list, x) == Cardinality({i \in 1..Len(list) : list[i] = x})
        IN  /\ Len(detailed) = Len(stored)
            /\ \A i \in 1..Len(stored) : Count(detailed, stored[i]) = Count(stored, stored[i])
            /\ \A i, j \in 1..Len(detailed) :
                  i < j => ~InstantLt(detailed[i].timestamp, detailed[j].timestamp)

\* the float literal 0.6
F0_6 == <<6, -16, 1>>

\* the float literal of k tenths
TenthsLiteral(k) ==
    CASE k = 10 -> F1_0  [] k = 8 -> F0_8  [] k = 7 -> F0_7
      [] k = 6 -> F0_6   [] k = 5 -> F0_5  [] k = 3 -> F0_3

\* C10 (as claimed): a commit's score is 1.0 less 0.3 for a message under 10
\* characters, less 0.2 for no conventional prefix, less 0.2 for more than 20
\* files, so exactly one of 1.0, 0.8, 0.7, 0.6, 0.5, 0.3; and a score that
\* lost 0.3 and 0.2 is 0.5, medium risk.
C10_CommitScoreIsADecimalStep ==
    \A evs \in {events, all_events} : \A i \in 1..Len(evs) :
        evs[i].event_type = T_commit =>
            LET short == Len(evs[i].details.message) < 10
                bare == \A prefix \in ConventionalPrefixes :
                            ~Contains(Lower(evs[i].details.message), prefix)
                large == evs[i].details.files_changed > 20
                tenths == 10 - (IF short THEN 3 ELSE 0) - (IF bare THEN 2 ELSE 0)
                             - (IF large THEN 2 ELSE 0)
            IN  /\ evs[i].compliance_score = TenthsLiteral(tenths)
                /\ tenths = 5 => ~FLt(evs[i].compliance_score, F0_5)

\* C11: after any sequence of scans and reports the stored events are exactly
\* the events returned by the latest scan that returned (none before the first):
\* a returning scan replaces the stored events, a scan that raises or is still
\* running leaves them as they were, and a report is built from them.
C11_StoredEventsAreLatestCompletedScan ==
    /\ events = completed
    /\ ScanReturned => ret.value = events
    /\ ReportReturned =>
          /\ ret.value.total_events = Len(completed)
          /\ Len(ret.value.detailed_events) = Len(completed)
          /\ \A i \in 1..Len(completed) :
                \E j \in 1..Len(completed) :
                    ret.value.detailed_events[j] = DetailedEvent(completed[i])

\* C11 witness: a scan raised after an earlier scan had returned events, which
\* are still the stored ones
C11_Witness ==
    /\ ScanRaised
    /\ ret.exc = "KeyError"
    /\ events # <<>>

====
